---- MODULE Spec2Model ----
(***************************************************************************)
(* youtube-rss.py: export of YouTube playlist metadata to JSON.            *)
(*                                                                         *)
(* The model covers the config parser (parse_playlists_from_requirements_md),*)
(* the extraction adapters (fetch_playlist_flat, fetch_video_metadata) as  *)
(* functions of the answer the extraction library gives, the JSON writer   *)
(* (save_json / clean_dict) and the batch driver (main).                   *)
(*                                                                         *)
(* Python strings are sequences of one-character strings.  Python values   *)
(* are tagged records so that None, "", [], {} stay distinct.              *)
(***************************************************************************)
EXTENDS Integers, Sequences, FiniteSets, TLC

\* ------------------------------------------------------------------ bounds

\* Longest task list a config document of the batch model declares.
MaxTasks == 2
\* Longest entries sequence a flat fetch returns.
MaxEntries == 2
\* Longest config document (in lines) the parser model is run on.
MaxLines == 4

\* ----------------------------------------------------------- Python values

None == [py |-> "None"]
PyStr(s) == [py |-> "str", v |-> s]
PyInt(n) == [py |-> "int", v |-> n]
PyList(s) == [py |-> "list", v |-> s]
PyDict(f) == [py |-> "dict", v |-> f]
EmptyDict == PyDict(<<>>)

\* bool(x): None, "", 0, [] and {} are false.
Truthy(x) ==
    CASE x.py = "None" -> FALSE
      [] x.py = "str"  -> x.v # <<>>
      [] x.py = "int"  -> x.v # 0
      [] x.py = "list" -> x.v # <<>>
      [] x.py = "dict" -> DOMAIN x.v # {}

\* d.get(k, default)
Get(d, k, default) == IF k \in DOMAIN d.v THEN d.v[k] ELSE default

\* a or b
PyOr(a, b) == IF Truthy(a) THEN a ELSE b

\* ----------------------------------------------------------------- strings

UpperSeq == <<"A", "B", "C", "D", "E", "F", "G", "H", "I", "J", "K", "L", "M", "N", "O", "P", "Q", "R", "S", "T", "U", "V", "W", "X", "Y", "Z">>
LowerSeq == <<"a", "b", "c", "d", "e", "f", "g", "h", "i", "j", "k", "l", "m", "n", "o", "p", "q", "r", "s", "t", "u", "v", "w", "x", "y", "z">>
UpperChars == {UpperSeq[i] : i \in 1..Len(UpperSeq)}
LowerChars == {LowerSeq[i] : i \in 1..Len(LowerSeq)}
DigitChars == {"0", "1", "2", "3", "4", "5", "6", "7", "8", "9"}

\* \s of the regular expression and the characters str.strip() removes.
IsSpace(c) == c \in {" ", "\t", "\n", "\r"}

\* str.lower() on one character.
LowerChar(c) ==
    IF c \in UpperChars
    THEN LowerSeq[CHOOSE i \in 1..Len(UpperSeq) : UpperSeq[i] = c]
    ELSE c

lower(s) == [i \in 1..Len(s) |-> LowerChar(s[i])]

RECURSIVE lstrip(_)
lstrip(s) == IF s # <<>> /\ IsSpace(Head(s)) THEN lstrip(Tail(s)) ELSE s

RECURSIVE rstrip(_)
rstrip(s) ==
    IF s # <<>> /\ IsSpace(s[Len(s)]) THEN rstrip(SubSeq(s, 1, Len(s) - 1)) ELSE s

strip(s) == rstrip(lstrip(s))

startswith(s, p) == Len(s) >= Len(p) /\ SubSeq(s, 1, Len(p)) = p

\* str.find(sub): the least 1-based index where sub starts in s, 0 when absent.
Find(s, sub) ==
    LET hits == {i \in 1..(Len(s) - Len(sub) + 1) : SubSeq(s, i, i + Len(sub) - 1) = sub}
    IN IF hits = {} THEN 0 ELSE CHOOSE i \in hits : \A j \in hits : i <= j

\* s.split(sep, 1): one or two parts.
Split1(s, sep) ==
    LET i == Find(s, sep)
    IN IF i = 0 THEN <<s>>
       ELSE <<SubSeq(s, 1, i - 1), SubSeq(s, i + Len(sep), Len(s))>>

\* ----------------------------------------------------------- config parser

\* [A-Za-z0-9_-]
IdChar(c) == c \in UpperChars \cup LowerChars \cup DigitChars \cup {"_", "-"}

NoMatch == <<>>

s_hash_playlists == <<"#", " ", "p", "l", "a", "y", "l", "i", "s", "t", "s">>

\* RE_PLAYLIST_LINE.match(line) for ^\s*([^#=\n]+?)\s*=\s*([A-Za-z0-9_-]+)\s*$ :
\* NoMatch, or <<group(1), group(2)>>.  Nothing before the literal = can match
\* an =, so the = of the pattern is the first = of the line; the text before it
\* must be non-empty and free of # and newline; the lazy group(1) is that text
\* without the white space around it (one white-space character when it is all
\* white space); the text after it, stripped, must be a non-empty run of id
\* characters.
RE_PLAYLIST_LINE(line) ==
    LET p == Find(line, <<"=">>)
        before == SubSeq(line, 1, p - 1)
        after == strip(SubSeq(line, p + 1, Len(line)))
        g1 == IF strip(before) = <<>> THEN <<before[Len(before)]>> ELSE strip(before)
    IN IF p = 0 THEN NoMatch
       ELSE IF before = <<>> THEN NoMatch
       ELSE IF \E i \in 1..Len(before) : before[i] \in {"#", "\n"} THEN NoMatch
       ELSE IF after = <<>> THEN NoMatch
       ELSE IF \E i \in 1..Len(after) : ~IdChar(after[i]) THEN NoMatch
       ELSE <<g1, after>>

\* ParseLines that skips a section header instead of stopping at it.
RECURSIVE ParseLines_NoStop(_, _, _, _)
ParseLines_NoStop(lines, i, in_section, playlists) ==
    IF i > Len(lines) THEN playlists
    ELSE LET line == strip(lines[i])
             m == RE_PLAYLIST_LINE(line)
         IN IF lower(line) = s_hash_playlists
              THEN ParseLines_NoStop(lines, i + 1, TRUE, playlists)
            ELSE IF ~in_section
              THEN ParseLines_NoStop(lines, i + 1, in_section, playlists)
            ELSE IF line = <<>> \/ startswith(line, <<"#">>)
              THEN ParseLines_NoStop(lines, i + 1, in_section, playlists)
            ELSE IF m # NoMatch
              THEN ParseLines_NoStop(lines, i + 1, in_section,
                                     Append(playlists, <<strip(m[1]), strip(m[2])>>))
            ELSE ParseLines_NoStop(lines, i + 1, in_section, playlists)

\* The loop body of parse_playlists_from_requirements_md over the lines from
\* position i on, with the loop's state (in_section, playlists).
RECURSIVE ParseLines(_, _, _, _)
ParseLines(lines, i, in_section, playlists) ==
    IF i > Len(lines) THEN playlists
    ELSE LET line == strip(lines[i])
             m == RE_PLAYLIST_LINE(line)
         IN IF lower(line) = s_hash_playlists
              THEN ParseLines(lines, i + 1, TRUE, playlists)
            ELSE IF ~in_section
              THEN ParseLines(lines, i + 1, in_section, playlists)
            ELSE IF startswith(line, <<"#", " ">>) /\ lower(line) # s_hash_playlists
              THEN playlists
            ELSE IF line = <<>> \/ startswith(line, <<"#">>)
              THEN ParseLines(lines, i + 1, in_section, playlists)
            ELSE IF m # NoMatch
              THEN ParseLines(lines, i + 1, in_section,
                              Append(playlists, <<strip(m[1]), strip(m[2])>>))
            ELSE ParseLines(lines, i + 1, in_section, playlists)

\* A requirements file: absent, or its lines (each without its line break,
\* which strip() removes first thing).
NoFile == [exists |-> FALSE, lines |-> <<>>]
File(ls) == [exists |-> TRUE, lines |-> ls]

parse_playlists_from_requirements_md(file) ==
    IF ~file.exists THEN <<>>
    ELSE ParseLines(file.lines, 1, FALSE, <<>>)

\* ------------------------------------------------------------- URL helpers

s_http == <<"h", "t", "t", "p">>
s_http_colon == <<"h", "t", "t", "p", ":", "/", "/">>
s_https_colon == <<"h", "t", "t", "p", "s", ":", "/", "/">>
s_playlist_url == <<"h", "t", "t", "p", "s", ":", "/", "/", "w", "w", "w", ".", "y", "o", "u", "t", "u", "b", "e", ".", "c", "o", "m", "/", "p", "l", "a", "y", "l", "i", "s", "t", "?", "l", "i", "s", "t", "=">>
s_watch_url == <<"h", "t", "t", "p", "s", ":", "/", "/", "w", "w", "w", ".", "y", "o", "u", "t", "u", "b", "e", ".", "c", "o", "m", "/", "w", "a", "t", "c", "h", "?", "v", "=">>
s_list_eq == <<"l", "i", "s", "t", "=">>

normalize_playlist_input(arg) ==
    IF startswith(arg, s_http_colon) \/ startswith(arg, s_https_colon)
    THEN arg
    ELSE s_playlist_url \o arg

\* pid of a positional argument:
\* playlist if "list=" not in playlist else playlist.split("list=",1)[1].split("&",1)[0]
PositionalPid(playlist) ==
    IF Find(playlist, s_list_eq) = 0 THEN playlist
    ELSE Split1(Split1(playlist, s_list_eq)[2], <<"&">>)[1]

\* ------------------------------------------------------ extraction adapter

\* What one call of YoutubeDL.extract_info does: raise, or return info (None
\* for an item it skipped under ignoreerrors, else a dict).
Raised == [raised |-> TRUE, info |-> None]
Returned(info) == [raised |-> FALSE, info |-> info]

\* fetch_playlist_flat: {} for an exception, else  info or {}.
fetch_playlist_flat(playlist_url, answer) ==
    IF answer.raised THEN EmptyDict ELSE PyOr(answer.info, EmptyDict)

\* The URL fetch_video_metadata asks for.
VideoUrl(id_or_url) ==
    IF startswith(id_or_url, s_http) THEN id_or_url ELSE s_watch_url \o id_or_url

\* fetch_video_metadata: {} for an exception, else  info or {}.
fetch_video_metadata(id_or_url, answer) ==
    IF answer.raised THEN EmptyDict ELSE PyOr(answer.info, EmptyDict)

\* ------------------------------------------------------------- JSON writer

allowed_fields ==
    {"id", "title", "fulltitle", "channel", "uploader", "uploader_id",
     "channel_id", "uploader_url", "channel_url", "original_url", "webpage_url",
     "thumbnail", "upload_date", "duration", "duration_string", "description",
     "categories", "tags", "entries"}

\* t.get("width", 0) * t.get("height", 0)
ThumbArea(t) == Get(t, "width", PyInt(0)).v * Get(t, "height", PyInt(0)).v

\* sorted(v, key=area, reverse=True)[0]: sorted is stable and reverse keeps the
\* order of equal keys, so the first element is the earliest of largest area.
BestThumb(v) ==
    LET i == CHOOSE i \in 1..Len(v) :
                 /\ \A j \in 1..Len(v) : ThumbArea(v[j]) <= ThumbArea(v[i])
                 /\ \A j \in 1..(i - 1) : ThumbArea(v[j]) < ThumbArea(v[i])
    IN v[i]

\* [x for x in s if x]
RECURSIVE FilterTruthy(_)
FilterTruthy(s) ==
    IF s = <<>> THEN <<>>
    ELSE IF Truthy(Head(s)) THEN <<Head(s)>> \o FilterTruthy(Tail(s))
    ELSE FilterTruthy(Tail(s))

\* clean_dict that copies the entries value as it is instead of cleaning it.
clean_dict_shallow(d) ==
    LET kept == {k \in DOMAIN d.v \cap allowed_fields :
                   ~(k = "thumbnail" /\ d.v[k].py = "list" /\ d.v[k].v = <<>>)}
        value(k) ==
            IF k = "thumbnail" /\ d.v[k].py = "list"
            THEN Get(BestThumb(d.v[k].v), "url", PyStr(<<>>))
            ELSE d.v[k]
    IN PyDict([k \in kept |-> value(k)])

\* save_json.clean_dict: the allow-listed keys of d; a truthy entries value is
\* cleaned element by element with its falsy elements left out; a thumbnail
\* list becomes the url of its best element, and is left out when empty; every
\* other value is copied as it is.
RECURSIVE clean_dict(_)
clean_dict(d) ==
    LET items == DOMAIN d.v
        kept == {k \in items \cap allowed_fields :
                   ~(/\ ~(k = "entries" /\ Truthy(d.v[k]))
                     /\ k = "thumbnail"
                     /\ d.v[k].py = "list"
                     /\ d.v[k].v = <<>>)}
        value(k) ==
            IF k = "entries" /\ Truthy(d.v[k])
            THEN LET es == FilterTruthy(d.v[k].v)
                 IN PyList([i \in 1..Len(es) |-> clean_dict(es[i])])
            ELSE IF k = "thumbnail" /\ d.v[k].py = "list"
            THEN Get(BestThumb(d.v[k].v), "url", PyStr(<<>>))
            ELSE d.v[k]
    IN PyDict([k \in kept |-> value(k)])

s_playlist == <<"p", "l", "a", "y", "l", "i", "s", "t">>
s_data_slash == <<"d", "a", "t", "a", "/">>
s_dot_json == <<".", "j", "s", "o", "n">>

\* save_json: the path written and the data dumped to it.
save_json(info) ==
    LET cleaned == clean_dict(info)
        playlist_id == PyOr(Get(cleaned, "id", None), PyStr(s_playlist))
    IN [path |-> s_data_slash \o playlist_id.v \o s_dot_json, data |-> cleaned]

\* ------------------------------------------------------------ the inputs

Min(a, b) == IF a < b THEN a ELSE b

\* All sequences over S of length at most n.
RECURSIVE SeqsUpTo(_, _)
SeqsUpTo(S, n) ==
    IF n = 0 THEN {<<>>}
    ELSE LET shorter == SeqsUpTo(S, n - 1)
         IN shorter \cup {Append(s, x) : s \in {q \in shorter : Len(q) = n - 1}, x \in S}

\* The positional argument: absent, empty, a bare id, a URL with a list= part.
s_bare_id == <<"P", "L", "x">>
PositionalArgs ==
    {None, PyStr(<<>>), PyStr(s_bare_id), PyStr(<<"h", "t", "t", "p", ":", "/", "/", "y", "/", "p", "?", "l", "i", "s", "t", "=", "P", "L", "y", "&", "i", "=", "2">>)}

\* Lines of the requirements files the batch model reads.
TaskLines ==
    << <<"A", "E", "C", " ", "=", " ", "P", "L", "1", "2", "3">>,
       <<"P", "h", "D", " ", "R", "e", "s", "e", "a", "r", "c", "h", " ", "(", "a", "s", "s", "o", "r", "t", "e", "d", ")", " ", "=", " ", "P", "L", "4", "5", "6">>,
       <<"C", "=", "P", "L", "_", "7", "-", "8">> >>

BatchFile(k) ==
    File(<< <<"i", "n", "t", "r", "o", " ", "=", " ", "P", "L", "0">>, <<"#", " ", "P", "l", "a", "y", "l", "i", "s", "t", "s">> >> \o SubSeq(TaskLines, 1, k)
         \o << <<"#", " ", "O", "t", "h", "e", "r">>, <<"Z", " ", "=", " ", "P", "L", "9">> >>)

BatchFiles == {NoFile} \cup {BatchFile(k) : k \in 0..Min(MaxTasks, Len(TaskLines))}

\* Lines of the documents the parser model is run on.
LinePool ==
    { <<"#", " ", "P", "l", "a", "y", "l", "i", "s", "t", "s">>,
      <<" ", "#", " ", "P", "L", "A", "Y", "L", "I", "S", "T", "S", " ">>,
      <<"#", " ", "O", "t", "h", "e", "r">>,
      <<"A", " ", "=", " ", "P", "1">>,
      <<" ", "b", " ", "c", "=", "Q", "-", "2", " ">>,
      <<"#", "x", "=", "y">>,
      <<"A", " ", "=", " ", "P", " ", "2">>,
      <<>> }

ParserFiles == {NoFile} \cup {File(ls) : ls \in SeqsUpTo(LinePool, MaxLines)}

\* Entries of a flat listing: a video with an id, a record with neither id nor
\* url, and None (an entry the library could not reach, under ignoreerrors).
FlatVideo ==
    PyDict([id |-> PyStr(<<"v", "1">>), title |-> PyStr(<<"T">>), url |-> PyStr(<<"u", "1">>),
            description |-> None, ie_key |-> PyStr(<<"y", "t">>)])
FlatStub == PyDict([title |-> PyStr(<<>>), thumbnail |-> PyList(<<>>)])
FlatEntries == {None, FlatVideo, FlatStub}

\* Flat listings: a playlist with an entries list, and one without id whose
\* entries value is None.
FlatPlaylist(es) ==
    PyDict([id |-> PyStr(<<"P", "L", "1">>), title |-> PyStr(<<"T">>), description |-> None,
            extractor |-> PyStr(<<"y", "t">>), entries |-> PyList(es)])
FlatBare == PyDict([title |-> PyStr(<<>>), entries |-> None])

FlatAnswers ==
    {Raised, Returned(None), Returned(FlatBare)}
      \cup {Returned(FlatPlaylist(es)) : es \in SeqsUpTo(FlatEntries, MaxEntries)}

\* Deep records: one with an empty description, one with a description, a
\* thumbnail list and keys outside the allow-list.
Thumb(u, w, h) == PyDict([url |-> PyStr(u), width |-> PyInt(w), height |-> PyInt(h)])
DeepNoDescription ==
    PyDict([id |-> PyStr(<<"v", "1">>), title |-> PyStr(<<"T">>), description |-> PyStr(<<>>),
            formats |-> PyList(<<>>)])
DeepFull ==
    PyDict([id |-> PyStr(<<"v", "1">>), title |-> PyStr(<<"T">>), description |-> PyStr(<<"d">>),
            tags |-> PyList(<<>>), formats |-> PyList(<<PyStr(<<"d">>)>>),
            thumbnail |-> PyList(<<Thumb(<<"s">>, 1, 2), Thumb(<<"b">>, 2, 2),
                                   Thumb(<<"c">>, 4, 1)>>)])

DeepAnswers == {Raised, Returned(None), Returned(DeepNoDescription), Returned(DeepFull)}

\* ---------------------------------------------------------------- state

VARIABLES
    args,              \* the parsed command line: all, playlist, fast
    req_file,          \* the requirements file on disk (args.req)
    pc,                \* where main is: start, loop, enrich, summary, done, exit, crashed
    exit_status,       \* the process's exit status once it has ended, else -1
    crash,             \* the exception that ended the process, "" when none
    listed,            \* main's listed
    tasks,             \* main's tasks: <<name, id_or_url>> pairs
    ti,                \* position in tasks of the task the for loop is at
    url,               \* main's url
    playlist_info,     \* main's playlist_info
    entries,           \* main's entries
    enriched_entries,  \* main's enriched_entries
    idx,               \* main's idx: position of the next entry to enrich
    reports,           \* main's reports
    total_saved,       \* main's total_saved
    stdout,            \* the report lines and the summary printed at the end
    written,           \* save_json calls so far: the task and the path of each
    last_written,      \* what the latest save_json call wrote: path and data
    flat_log,          \* per task fetched: whether the flat fetch was "ok" or "empty"
    deep_log,          \* per entry of this task enriched: the deep fetch made
    interrupted        \* the task whose enrichment caught KeyboardInterrupt, else 0

vars ==
    <<args, req_file, pc, exit_status, crash, listed, tasks, ti, url,
      playlist_info, entries, enriched_entries, idx, reports, total_saved,
      stdout, written, last_written, flat_log, deep_log, interrupted>>

NotPrinted == [printed |-> FALSE, lines |-> <<>>, saved |-> 0, total |-> 0]
NothingWritten == [path |-> <<>>, data |-> None]
\* A deep_log element: no fetch was made, or the URL asked for and the record
\* fetch_video_metadata returned.
NoFetch == [fetched |-> FALSE, url |-> <<>>, full |-> EmptyDict]
Fetch(u, r) == [fetched |-> TRUE, url |-> u, full |-> r]

\* The state main starts in, for a command line and a requirements file.
Start(a, f) ==
    /\ args = a
    /\ req_file = f
    /\ pc = "start"
    /\ exit_status = -1
    /\ crash = ""
    /\ listed = <<>>
    /\ tasks = <<>>
    /\ ti = 1
    /\ url = <<>>
    /\ playlist_info = EmptyDict
    /\ entries = <<>>
    /\ enriched_entries = <<>>
    /\ idx = 1
    /\ reports = <<>>
    /\ total_saved = 0
    /\ stdout = NotPrinted
    /\ written = <<>>
    /\ last_written = NothingWritten
    /\ flat_log = <<>>
    /\ deep_log = <<>>
    /\ interrupted = 0

\* The command lines and requirements files main is started on: --all alone on
\* every file; --all with a positional argument, and no --all with every
\* positional argument, on no file and on a file of one task.
Inputs ==
    {<<[all |-> TRUE, playlist |-> None, fast |-> f], file>> :
        f \in BOOLEAN, file \in BatchFiles}
    \cup
    {<<[all |-> a, playlist |-> p, fast |-> f], file>> :
        a \in BOOLEAN, p \in PositionalArgs, f \in BOOLEAN, file \in {NoFile, BatchFile(1)}}

Init == \E inp \in Inputs : Start(inp[1], inp[2])

\* ---------------------------------------------------------- task resolution

\* Where the for loop over tasks goes with i tasks behind it.
LoopAt(i, ts) == IF i > Len(ts) THEN "summary" ELSE "loop"

\* ResolveAll without the check for an empty list.
ResolveAll_NoExit ==
    /\ pc = "start"
    /\ args.all
    /\ LET found == parse_playlists_from_requirements_md(req_file)
       IN /\ listed' = found
          /\ pc' = LoopAt(1, found)
          /\ tasks' = tasks \o found
    /\ UNCHANGED <<args, req_file, exit_status, crash, ti, url, playlist_info,
                   entries, enriched_entries, idx, reports, total_saved, stdout,
                   written, last_written, flat_log, deep_log, interrupted>>

\* if args.all: the list of the requirements file, SystemExit when it is empty.
ResolveAll ==
    /\ pc = "start"
    /\ args.all
    /\ LET found == parse_playlists_from_requirements_md(req_file)
       IN /\ listed' = found
          /\ IF found = <<>>
             THEN /\ pc' = "exit"
                  /\ exit_status' = 1
                  /\ tasks' = tasks
             ELSE /\ pc' = LoopAt(1, found)
                  /\ exit_status' = exit_status
                  /\ tasks' = tasks \o found
    /\ UNCHANGED <<args, req_file, crash, ti, url, playlist_info, entries,
                   enriched_entries, idx, reports, total_saved, stdout, written,
                   last_written, flat_log, deep_log, interrupted>>

\* elif args.playlist: one task, named by the list id of the argument.
ResolvePositional ==
    /\ pc = "start"
    /\ ~args.all
    /\ Truthy(args.playlist)
    /\ tasks' = Append(tasks, <<PositionalPid(args.playlist.v), args.playlist.v>>)
    /\ pc' = LoopAt(1, tasks')
    /\ UNCHANGED <<args, req_file, exit_status, crash, listed, ti, url,
                   playlist_info, entries, enriched_entries, idx, reports,
                   total_saved, stdout, written, last_written, flat_log, deep_log,
                   interrupted>>

\* else: parser.error, which prints the usage and exits with status 2.
UsageError ==
    /\ pc = "start"
    /\ ~args.all
    /\ ~Truthy(args.playlist)
    /\ pc' = "exit"
    /\ exit_status' = 2
    /\ UNCHANGED <<args, req_file, crash, listed, tasks, ti, url, playlist_info,
                   entries, enriched_entries, idx, reports, total_saved, stdout,
                   written, last_written, flat_log, deep_log, interrupted>>

\* ------------------------------------------------------------ the for loop

\* d[k] = x
SetItem(d, k, x) ==
    PyDict([j \in DOMAIN d.v \cup {k} |-> IF j = k THEN x ELSE d.v[j]])

\* len(playlist_info.get("entries") or [])
EntryCount(info) == Len(PyOr(Get(info, "entries", None), PyList(<<>>)).v)

FailedLine(name) == [ok |-> FALSE, name |-> name, count |-> 0, mode |-> "", path |-> <<>>]
SavedLine(name, count, mode, path) ==
    [ok |-> TRUE, name |-> name, count |-> count, mode |-> mode, path |-> path]

\* Save without total_saved += 1.
Save_NoCount(info) ==
    LET out == save_json(info)
    IN /\ last_written' = out
       /\ written' = Append(written, [task |-> ti, path |-> out.path])
       /\ reports' = Append(reports,
                            SavedLine(tasks[ti][1], EntryCount(info),
                                      IF args.fast THEN "FAST" ELSE "FULL", out.path))
       /\ total_saved' = total_saved
       /\ ti' = ti + 1
       /\ pc' = LoopAt(ti + 1, tasks)

\* Step 3 of the loop body for the task at ti, with info as playlist_info:
\* save_json, the report line, the counter, and on to the next task.
Save(info) ==
    LET out == save_json(info)
    IN /\ last_written' = out
       /\ written' = Append(written, [task |-> ti, path |-> out.path])
       /\ reports' = Append(reports,
                            SavedLine(tasks[ti][1], EntryCount(info),
                                      IF args.fast THEN "FAST" ELSE "FULL", out.path))
       /\ total_saved' = total_saved + 1
       /\ ti' = ti + 1
       /\ pc' = LoopAt(ti + 1, tasks)

\* FlatFetchFailed with break in place of continue.
FlatFetchFailed_Break ==
    /\ pc = "loop"
    /\ \E answer \in FlatAnswers :
         LET u == normalize_playlist_input(tasks[ti][2])
         IN /\ ~Truthy(fetch_playlist_flat(u, answer))
            /\ url' = u
            /\ playlist_info' = fetch_playlist_flat(u, answer)
    /\ reports' = Append(reports, FailedLine(tasks[ti][1]))
    /\ flat_log' = Append(flat_log, "empty")
    /\ ti' = ti + 1
    /\ pc' = "summary"
    /\ UNCHANGED <<args, req_file, exit_status, crash, listed, tasks, entries,
                   enriched_entries, idx, total_saved, stdout, written,
                   last_written, deep_log, interrupted>>

\* The flat fetch gave nothing: the failed line, and on to the next task.
FlatFetchFailed ==
    /\ pc = "loop"
    /\ \E answer \in FlatAnswers :
         LET u == normalize_playlist_input(tasks[ti][2])
         IN /\ ~Truthy(fetch_playlist_flat(u, answer))
            /\ url' = u
            /\ playlist_info' = fetch_playlist_flat(u, answer)
    /\ reports' = Append(reports, FailedLine(tasks[ti][1]))
    /\ flat_log' = Append(flat_log, "empty")
    /\ ti' = ti + 1
    /\ pc' = LoopAt(ti + 1, tasks)
    /\ UNCHANGED <<args, req_file, exit_status, crash, listed, tasks, entries,
                   enriched_entries, idx, total_saved, stdout, written,
                   last_written, deep_log, interrupted>>

\* --fast: the flat listing is saved as it is.
FlatFetchFast ==
    /\ pc = "loop"
    /\ args.fast
    /\ \E answer \in FlatAnswers :
         LET u == normalize_playlist_input(tasks[ti][2])
             info == fetch_playlist_flat(u, answer)
         IN /\ Truthy(info)
            /\ url' = u
            /\ playlist_info' = info
            /\ Save(info)
    /\ flat_log' = Append(flat_log, "ok")
    /\ UNCHANGED <<args, req_file, exit_status, crash, listed, tasks, entries,
                   enriched_entries, idx, stdout, deep_log, interrupted>>

\* Full mode: the enrichment loop starts over the entries of the listing.
FlatFetchFull ==
    /\ pc = "loop"
    /\ ~args.fast
    /\ \E answer \in FlatAnswers :
         LET u == normalize_playlist_input(tasks[ti][2])
             info == fetch_playlist_flat(u, answer)
         IN /\ Truthy(info)
            /\ url' = u
            /\ playlist_info' = info
            /\ entries' = PyOr(Get(info, "entries", None), PyList(<<>>)).v
    /\ enriched_entries' = <<>>
    /\ idx' = 1
    /\ deep_log' = <<>>
    /\ flat_log' = Append(flat_log, "ok")
    /\ pc' = "enrich"
    /\ UNCHANGED <<args, req_file, exit_status, crash, listed, tasks, ti, reports,
                   total_saved, stdout, written, last_written, interrupted>>

\* entry.get on a None entry raises AttributeError, which nothing catches.
EnrichNoneEntry ==
    /\ pc = "enrich"
    /\ idx <= Len(entries)
    /\ entries[idx] = None
    /\ crash' = "AttributeError"
    /\ exit_status' = 1
    /\ pc' = "crashed"
    /\ UNCHANGED <<args, req_file, listed, tasks, ti, url, playlist_info, entries,
                   enriched_entries, idx, reports, total_saved, stdout, written,
                   last_written, flat_log, deep_log, interrupted>>

\* vid = entry.get("id") or entry.get("url")
Vid(entry) == PyOr(Get(entry, "id", None), Get(entry, "url", None))

\* An entry with neither id nor url is kept without a deep fetch.
EnrichNoVid ==
    /\ pc = "enrich"
    /\ idx <= Len(entries)
    /\ entries[idx] # None
    /\ ~Truthy(Vid(entries[idx]))
    /\ enriched_entries' = Append(enriched_entries, entries[idx])
    /\ deep_log' = Append(deep_log, NoFetch)
    /\ idx' = idx + 1
    /\ UNCHANGED <<args, req_file, pc, exit_status, crash, listed, tasks, ti, url,
                   playlist_info, entries, reports, total_saved, stdout, written,
                   last_written, flat_log, interrupted>>

\* Enriched without the test of the description.
Enriched_AnyFull(entry, full) == IF Truthy(full) THEN full ELSE entry

\* if full and full.get("description"): the deep record, else the flat entry.
Enriched(entry, full) ==
    IF Truthy(full) /\ Truthy(Get(full, "description", None)) THEN full ELSE entry

\* One deep fetch, and the record the loop keeps for the entry.  (The progress
\* line printed every 25 entries changes no state and is left out.)
EnrichDeepFetch ==
    /\ pc = "enrich"
    /\ idx <= Len(entries)
    /\ entries[idx] # None
    /\ Truthy(Vid(entries[idx]))
    /\ \E answer \in DeepAnswers :
         LET vid == Vid(entries[idx]).v
             full == fetch_video_metadata(vid, answer)
         IN /\ enriched_entries' = Append(enriched_entries, Enriched(entries[idx], full))
            /\ deep_log' = Append(deep_log, Fetch(VideoUrl(vid), full))
    /\ idx' = idx + 1
    /\ UNCHANGED <<args, req_file, pc, exit_status, crash, listed, tasks, ti, url,
                   playlist_info, entries, reports, total_saved, stdout, written,
                   last_written, flat_log, interrupted>>

\* EnrichInterrupt with the break left out: the handler falls through to the
\* assignment after the try and to the save, and the loop over the tasks goes on.
EnrichInterrupt_NoBreak ==
    /\ pc = "enrich"
    /\ interrupted' = ti
    /\ LET info == SetItem(playlist_info, "entries", PyList(enriched_entries))
       IN /\ playlist_info' = info
          /\ Save(info)
    /\ UNCHANGED <<args, req_file, exit_status, crash, listed, tasks, url, entries,
                   enriched_entries, idx, stdout, flat_log, deep_log>>

\* except KeyboardInterrupt: the entries enriched so far replace the entries of
\* playlist_info when there are any, and break leaves the loop over the tasks.
EnrichInterrupt ==
    /\ pc = "enrich"
    /\ interrupted' = ti
    /\ playlist_info' = IF enriched_entries # <<>>
                        THEN SetItem(playlist_info, "entries", PyList(enriched_entries))
                        ELSE playlist_info
    /\ pc' = "summary"
    /\ UNCHANGED <<args, req_file, exit_status, crash, listed, tasks, ti, url,
                   entries, enriched_entries, idx, reports, total_saved, stdout,
                   written, last_written, flat_log, deep_log>>

\* The loop over the entries ended: playlist_info["entries"] = enriched_entries,
\* then the save.
EnrichDone ==
    /\ pc = "enrich"
    /\ idx > Len(entries)
    /\ LET info == SetItem(playlist_info, "entries", PyList(enriched_entries))
       IN /\ playlist_info' = info
          /\ Save(info)
    /\ UNCHANGED <<args, req_file, exit_status, crash, listed, tasks, url, entries,
                   enriched_entries, idx, stdout, flat_log, deep_log, interrupted>>

\* KeyboardInterrupt during the flat fetch: fetch_playlist_flat catches
\* Exception only, and main catches nothing there, so the process ends (with
\* the status of a process killed by SIGINT).
InterruptOutsideEnrichment ==
    /\ pc = "loop"
    /\ crash' = "KeyboardInterrupt"
    /\ exit_status' = 130
    /\ pc' = "crashed"
    /\ UNCHANGED <<args, req_file, listed, tasks, ti, url, playlist_info, entries,
                   enriched_entries, idx, reports, total_saved, stdout, written,
                   last_written, flat_log, deep_log, interrupted>>

\* The report lines and "Done. N/M playlist(s) saved."
Summary ==
    /\ pc = "summary"
    /\ stdout' = [printed |-> TRUE, lines |-> reports, saved |-> total_saved,
                  total |-> Len(tasks)]
    /\ exit_status' = 0
    /\ pc' = "done"
    /\ UNCHANGED <<args, req_file, crash, listed, tasks, ti, url, playlist_info,
                   entries, enriched_entries, idx, reports, total_saved, written,
                   last_written, flat_log, deep_log, interrupted>>

Next ==
    \/ ResolveAll
    \/ ResolvePositional
    \/ UsageError
    \/ FlatFetchFailed
    \/ FlatFetchFast
    \/ FlatFetchFull
    \/ EnrichNoneEntry
    \/ EnrichNoVid
    \/ EnrichDeepFetch
    \/ EnrichInterrupt
    \/ EnrichDone
    \/ InterruptOutsideEnrichment
    \/ Summary

Spec == Init /\ [][Next]_vars

\* The parser alone, on every document of ParserFiles.
InitParser == \E f \in ParserFiles : Start([all |-> TRUE, playlist |-> None, fast |-> TRUE], f)

NextParser == ResolveAll

SpecParser == InitParser /\ [][NextParser]_vars

\* ------------------------------------------------------------- properties

\* The tasks save_json was called for.
WrittenTasks == {written[i].task : i \in 1..Len(written)}

\* The number of success lines among the lines ls.
RECURSIVE OkLines(_)
OkLines(ls) ==
    IF ls = <<>> THEN 0 ELSE (IF Head(ls).ok THEN 1 ELSE 0) + OkLines(Tail(ls))

\* [clean_dict(e) for e in s if e]
Cleaned(s) == LET es == FilterTruthy(s) IN [i \in 1..Len(es) |-> clean_dict(es[i])]

\* C1: once a run in which the enrichment of a task caught KeyboardInterrupt has
\* ended, that task's file has been written, the report list holds a success
\* line for it and the success counter counts it.
C1_InterruptedTaskIsSaved ==
    (interrupted # 0 /\ pc = "done") =>
        /\ interrupted \in WrittenTasks
        /\ Len(reports) >= interrupted
        /\ reports[interrupted].ok
        /\ reports[interrupted].name = tasks[interrupted][1]
        /\ total_saved = Len(written)

\* C2: when KeyboardInterrupt is caught after k of the n entries of a task were
\* enriched, 0 < k < n, the record persisted for the task holds the k enriched
\* entries followed by the n - k remaining flat entries, in source order.
C2_PartialSaveKeepsAllEntries ==
    (/\ interrupted # 0
     /\ pc = "done"
     /\ 0 < Len(enriched_entries)
     /\ Len(enriched_entries) < Len(entries)) =>
        /\ written # <<>>
        /\ written[Len(written)].task = interrupted
        /\ last_written.data.py = "dict"
        /\ Get(last_written.data, "entries", None) =
             PyList(Cleaned(enriched_entries
                            \o SubSeq(entries, Len(enriched_entries) + 1, Len(entries))))

\* C3: once the enrichment of task i has caught KeyboardInterrupt, the run is
\* at or past its summary and no later task has been started: the flat fetches
\* made are those of tasks 1..i, no file of a task after i was written, and the
\* deep fetches made are those of the entries enriched before the signal.
C3_NoTaskAfterInterrupt ==
    interrupted # 0 =>
        /\ pc \in {"summary", "done"}
        /\ crash = ""
        /\ ti = interrupted
        /\ Len(flat_log) = interrupted
        /\ \A j \in WrittenTasks : j <= interrupted
        /\ Len(deep_log) = Len(enriched_entries)
        /\ Len(deep_log) <= Len(entries)

\* A run that was interrupted in a task with tasks after it, and has ended.
C3_Witness ==
    /\ interrupted # 0
    /\ interrupted < Len(tasks)
    /\ pc = "done"

\* C4: a task whose flat fetch gave nothing has the failed line in the report
\* list at its position, has no file and is not counted, and the loop has gone
\* on: a run that reaches its summary without a caught KeyboardInterrupt has
\* fetched every task, and every task behind the loop whose flat fetch
\* succeeded has its file.
C4_FlatFailureIsSkipped ==
    /\ \A j \in 1..Len(flat_log) :
         flat_log[j] = "empty" =>
            /\ ti > j
            /\ Len(reports) >= j
            /\ reports[j] = FailedLine(tasks[j][1])
            /\ j \notin WrittenTasks
    /\ total_saved = Len(written)
    /\ (pc \in {"summary", "done"} /\ interrupted = 0) => Len(flat_log) = Len(tasks)
    /\ \A j \in 1..Len(flat_log) :
         (flat_log[j] = "ok" /\ j < ti) => j \in WrittenTasks

\* A finished run in which a task failed its flat fetch and a later one was saved.
C4_Witness ==
    /\ pc = "done"
    /\ \E j, k \in 1..Len(flat_log) :
         /\ j < k
         /\ flat_log[j] = "empty"
         /\ k \in WrittenTasks
         /\ reports[k].ok

\* C5 as stated: the lines printed at the summary are one per task of the task
\* list, in task order, and the summary counts M = number of tasks and
\* N = number of files written = number of success lines.
C5_OneLinePerTask ==
    stdout.printed =>
        /\ Len(stdout.lines) = Len(tasks)
        /\ \A j \in 1..Len(stdout.lines) : stdout.lines[j].name = tasks[j][1]
        /\ stdout.total = Len(tasks)
        /\ stdout.saved = Len(written)
        /\ stdout.saved = OkLines(stdout.lines)

\* C5 as amended: the lines printed at the summary are one per task of a prefix
\* of the task list, in task order, the whole list when no KeyboardInterrupt
\* was caught; the summary counts M = number of tasks and N = number of files
\* written = number of success lines.
C5_OneLinePerTaskDone ==
    stdout.printed =>
        /\ Len(stdout.lines) <= Len(tasks)
        /\ interrupted = 0 => Len(stdout.lines) = Len(tasks)
        /\ \A j \in 1..Len(stdout.lines) : stdout.lines[j].name = tasks[j][1]
        /\ \A j \in 1..Len(stdout.lines) : stdout.lines[j].ok <=> j \in WrittenTasks
        /\ stdout.total = Len(tasks)
        /\ stdout.saved = Len(written)
        /\ stdout.saved = OkLines(stdout.lines)

\* A summary over two tasks or more, one failed and one saved.
C5_Witness ==
    /\ stdout.printed
    /\ interrupted = 0
    /\ Len(tasks) >= 2
    /\ \E j, k \in 1..Len(stdout.lines) : stdout.lines[j].ok /\ ~stdout.lines[k].ok

\* Whether a positional argument was given on the command line.
PositionalGiven == args.playlist # None

\* C6 as stated: once the task list is resolved, a command line with both a
\* positional argument and --all, or with neither, has ended in a non-zero exit
\* with no task processed, and so has --all alone on an empty list.
C6_ExactlyOneSource ==
    pc # "start" =>
        /\ (args.all <=> PositionalGiven) =>
              (pc = "exit" /\ exit_status > 0 /\ tasks = <<>> /\ flat_log = <<>>)
        /\ (args.all /\ listed = <<>>) =>
              (pc = "exit" /\ exit_status > 0 /\ tasks = <<>> /\ flat_log = <<>>)

\* C6 as amended: with neither --all nor a non-empty positional argument the run
\* ends in a usage error, non-zero, with no task processed; --all on an empty
\* list ends in a non-zero exit with no task processed; --all on a non-empty
\* list processes that list whether or not a positional argument is given; a
\* positional argument alone gives the one task of that argument.
C6_AllTakesPrecedence ==
    pc # "start" =>
        /\ (~args.all /\ ~Truthy(args.playlist)) =>
              (pc = "exit" /\ exit_status = 2 /\ tasks = <<>> /\ flat_log = <<>>)
        /\ (args.all /\ listed = <<>>) =>
              (pc = "exit" /\ exit_status = 1 /\ tasks = <<>> /\ flat_log = <<>>)
        /\ (args.all /\ listed # <<>>) => (pc # "exit" /\ tasks = listed)
        /\ (~args.all /\ Truthy(args.playlist)) =>
              (pc # "exit" /\ Len(tasks) = 1 /\ tasks[1][2] = args.playlist.v)

\* A finished run of the listed tasks with both --all and a positional argument.
C6_Witness ==
    /\ args.all
    /\ PositionalGiven
    /\ pc = "done"
    /\ tasks = listed
    /\ written # <<>>

\* A value that is None or empty.
NullOrEmpty(x) == x.py = "None" \/ (x.py \in {"str", "list", "dict"} /\ ~Truthy(x))

\* The records of a written playlist: the playlist record and its entry records.
WrittenRecords ==
    IF last_written.data.py # "dict" THEN {}
    ELSE LET es == Get(last_written.data, "entries", PyList(<<>>))
         IN {last_written.data}
              \cup (IF es.py = "list" THEN {es.v[i] : i \in 1..Len(es.v)} ELSE {})

JustSaved ==
    /\ pc # "enrich"
    /\ interrupted = 0
    /\ crash # "AttributeError"
    /\ written # <<>>
    /\ written[Len(written)].task = ti - 1

\* What the writer makes of one record: out has the allow-listed keys of src
\* but a thumbnail that is an empty list; a thumbnail is not a list in out;
\* every other value but a non-empty entries list is the value of src, None and
\* empty values included.
WrittenAs(src, out) ==
    /\ out.py = "dict"
    /\ DOMAIN out.v = {k \in DOMAIN src.v \cap allowed_fields :
                          ~(k = "thumbnail" /\ src.v[k] = PyList(<<>>))}
    /\ "thumbnail" \in DOMAIN out.v => out.v["thumbnail"].py # "list"
    /\ \A k \in DOMAIN out.v \ {"thumbnail"} :
          (k = "entries" /\ Truthy(src.v[k])) \/ out.v[k] = src.v[k]

C9_NoneEntryIsSkipped ==
    /\ crash # "AttributeError"
    /\ (JustSaved /\ Truthy(Get(playlist_info, "entries", None))) =>
          Get(last_written.data, "entries", None) = PyList(Cleaned(playlist_info.v["entries"].v))

\* The state right after a task of a full run was saved.
JustSavedFull == JustSaved /\ ~args.fast

\* C10: after an enrichment loop that ran to its end over n flat entries, the
\* entries of playlist_info are n, in the flat order; element i is the deep
\* record when a deep fetch for entry i returned a non-empty record with a
\* non-empty description, and the flat entry i otherwise; one fetch at most was
\* made per entry, and the task has its success line.
C10_EnrichedOrFlat ==
    JustSavedFull =>
        LET es == Get(playlist_info, "entries", None)
            n == Len(entries)
        IN /\ es.py = "list"
           /\ Len(es.v) = n
           /\ Len(deep_log) = n
           /\ \A i \in 1..n :
                 LET full == deep_log[i].full
                     rich == /\ deep_log[i].fetched
                             /\ full # EmptyDict
                             /\ Get(full, "description", None) \notin {None, PyStr(<<>>)}
                 IN /\ rich => es.v[i] = full
                    /\ ~rich => es.v[i] = entries[i]
                    /\ es.v[i] = full <=> rich
           /\ reports[ti - 1].ok
           /\ reports[ti - 1].count = n

\* A full run's task saved with a deep record, a flat entry kept after a deep
\* fetch that returned a record with an empty description, both in one listing.
C10_Witness ==
    /\ JustSavedFull
    /\ Len(entries) >= 2
    /\ \E i, j \in 1..Len(deep_log) :
          /\ deep_log[i].fetched /\ deep_log[i].full = DeepFull
          /\ deep_log[j].fetched /\ deep_log[j].full = DeepNoDescription

\* The (name, id) pairs a line is a well-formed  name = id  line for: the line,
\* stripped, is a name, an = and an id; the name, stripped, is not empty and has
\* no # and no =; the id, stripped, is a non-empty run of [A-Za-z0-9_-].
NameIdPairs(raw) ==
    LET line == strip(raw)
    IN {<<strip(SubSeq(line, 1, p - 1)), strip(SubSeq(line, p + 1, Len(line)))>> :
          p \in {q \in 1..Len(line) :
                   /\ line[q] = "="
                   /\ strip(SubSeq(line, 1, q - 1)) # <<>>
                   /\ \A i \in 1..(q - 1) : line[i] \notin {"#", "="}
                   /\ strip(SubSeq(line, q + 1, Len(line))) # <<>>
                   /\ \A i \in 1..Len(strip(SubSeq(line, q + 1, Len(line)))) :
                         IdChar(strip(SubSeq(line, q + 1, Len(line)))[i])}}

\* A line equal, case-insensitively, to  # Playlists.
IsPlaylistsHeader(raw) == lower(strip(raw)) = s_hash_playlists

\* A line that starts a section: "# " and a title.
IsSectionHeader(raw) == startswith(strip(raw), <<"#", " ">>)

\* A section header other than  # Playlists.
IsOtherHeader(raw) == IsSectionHeader(raw) /\ ~IsPlaylistsHeader(raw)

\* The least position in hits, else none.
LeastOr(hits, none) ==
    IF hits = {} THEN none ELSE CHOOSE i \in hits : \A j \in hits : i <= j

\* The pairs of the well-formed lines at positions from..to, in order.
RECURSIVE PairsBetween(_, _, _)
PairsBetween(lines, from, to) ==
    IF from > to THEN <<>>
    ELSE (IF NameIdPairs(lines[from]) = {} THEN <<>>
          ELSE <<CHOOSE pr \in NameIdPairs(lines[from]) : TRUE>>)
         \o PairsBetween(lines, from + 1, to)

\* The pairs of the section that starts after the first  # Playlists  line and
\* ends before the first later section header: any "# " header when
\* any_header_ends, else only one other than  # Playlists.
SectionPairs(file, any_header_ends) ==
    IF ~file.exists THEN <<>>
    ELSE LET n == Len(file.lines)
             start == LeastOr({i \in 1..n : IsPlaylistsHeader(file.lines[i])}, n + 1)
             end == LeastOr({i \in (start + 1)..n :
                               IF any_header_ends THEN IsSectionHeader(file.lines[i])
                               ELSE IsOtherHeader(file.lines[i])}, n + 1)
         IN PairsBetween(file.lines, start + 1, end - 1)

\* C8 as stated: the parser returns the pairs of the well-formed lines after the
\* first  # Playlists  line and before the next "# "-prefixed header line or the
\* end of the file, in document order, and nothing for a missing file or section.
C8_SectionEndsAtNextHeader ==
    pc # "start" => listed = SectionPairs(req_file, TRUE)

\* C8 as amended: the section ends before the next "# "-prefixed header line
\* that is not itself  # Playlists  (a repeated  # Playlists  line is skipped
\* and the section goes on), or at the end of the file.
C8_SectionEndsAtOtherHeader ==
    pc # "start" => listed = SectionPairs(req_file, FALSE)

\* A document with a pair before the section, one in it and one after its end:
\* only the one in the section is returned.
C8_Witness ==
    /\ pc # "start"
    /\ req_file.exists
    /\ Len(listed) = 1
    /\ \E i, j, k, l \in 1..Len(req_file.lines) :
          /\ i < j /\ j < k /\ k < l
          /\ NameIdPairs(req_file.lines[i]) # {}
          /\ IsPlaylistsHeader(req_file.lines[j])
          /\ NameIdPairs(req_file.lines[k]) # {}
          /\ IsOtherHeader(req_file.lines[l])

====
